---- MODULE Spec2Model ----
(***************************************************************************)
(* A model of gif_to_drawaria_json.py: the per-frame encoder               *)
(* (get_drawing_commands_from_image), the frame aggregator                 *)
(* (gif_to_drawaria_json_processor) and the conversion button of the GUI   *)
(* (GIFConverterApp.start_conversion_thread / _run_conversion).            *)
(*                                                                         *)
(* The specifications of the module:                                      *)
(*   Spec      one call of get_drawing_commands_from_image                 *)
(*   ProcSpec  one call of gif_to_drawaria_json_processor                  *)
(*   GuiSpec   the Tk main loop, the user and the worker threads           *)
(*   (FairGuiSpec: GuiSpec with the fairness of the main loop and of the   *)
(*   worker threads).                                                      *)
(***************************************************************************)
EXTENDS Integers, Sequences, FiniteSets

VARIABLES
    \* ---- get_drawing_commands_from_image ----
    image_input,            \* the frame: [w, h, px], px[<<x, y>>] an RGBA sample
    output_size,            \* <<width, height>>
    brush_thickness,
    quality_factor,
    transparency_threshold,
    enc_pc,                 \* "start" | "normalized" | "done"
    img,                    \* after line 39: the canvas [w, h, px]
    offset,                 \* <<offset_x, offset_y>> (lines 36-37)
    scaled,                 \* size of the frame after thumbnail (line 32)
    commands,               \* the list built by lines 44-91
    \* ---- gif_to_drawaria_json_processor ----
    gif,                    \* the source: [openable, frames, duration]
    max_frames,             \* None or <<m>>
    log_callback,           \* "print" (None given) | "callable"
    proc_pc,                \* "idle" | "load" | "fps" | "loop" | "save" | "returned" | "raised"
    frames_data,
    original_fps,           \* <<numerator, denominator>>
    frame_count,
    total_commands,
    i,                      \* the index enumerate() gives next
    output_data,            \* <<>> until line 151, then <<the result>>
    output_file,            \* <<>> or <<what json.dump wrote>>
    save_attempted,         \* line 169 was reached
    log,                    \* the messages the observer took, in order
    \* ---- GIFConverterApp ----
    convert_button,         \* its state: "normal" | "disabled"
    gif_path_var,           \* the path shown, named after what the disk holds
    max_frames_entry,       \* the text of the entry bound to max_frames_var
    after_queue,            \* callbacks given to master.after(0, ...), in order
    converting,             \* worker threads that have not reached line 340 yet
    thread_args             \* <<>> or <<the arguments of the last thread started>>

encVars == <<image_input, enc_pc, img, offset, scaled, commands>>

parVars == <<output_size, brush_thickness, quality_factor, transparency_threshold>>

procVars == <<gif, max_frames, log_callback, proc_pc, frames_data, original_fps,
              frame_count, total_commands, i, output_data, output_file,
              save_attempted, log>>

guiVars == <<convert_button, gif_path_var, max_frames_entry, after_queue,
             converting, thread_args>>

vars == <<encVars, parVars, procVars, guiVars>>

----------------------------------------------------------------------------
(* Bounds of the model *)

MaxFrameW == 4
MaxFrameH == 3
MaxPixels == 3
MaxW == 6
MaxH == 2
MaxStride == 3
MaxFrames == 5
MaxCap == 3
MaxQueue == 3

(* Program constants *)

DefaultBrushThickness == 2
DefaultThreshold == 10
DefaultFps == 10
MillisPerSecond == 1000

----------------------------------------------------------------------------
(* Samples: RGBA, 8 bits a channel.  Opaque red and blue, a fully          *)
(* transparent white (the fill of line 35), and a red whose alpha equals   *)
(* the default threshold: not opaque enough at threshold 10, opaque enough *)
(* at threshold 0, where it has the colour of the opaque red.              *)

Red == <<255, 0, 0, 255>>
Blue == <<0, 0, 255, 255>>
FaintRed == <<255, 0, 0, DefaultThreshold>>
Transparent == <<255, 255, 255, 0>>

Samples == {Red, Blue, FaintRed, Transparent}

Grid(w, h) == (0 .. w - 1) \X (0 .. h - 1)

Uniform(f) == \A p \in DOMAIN f.px : \A r \in DOMAIN f.px : f.px[p] = f.px[r]

(* Frames: every content up to MaxPixels pixels, one-sample frames above. *)
FramesOfSize(w, h) ==
    IF w * h <= MaxPixels
    THEN {[w |-> w, h |-> h, px |-> f] : f \in [Grid(w, h) -> Samples]}
    ELSE {[w |-> w, h |-> h, px |-> [p \in Grid(w, h) |-> s]] : s \in Samples}

Frames == UNION {FramesOfSize(w, h) : w \in 1 .. MaxFrameW, h \in 1 .. MaxFrameH}

----------------------------------------------------------------------------
(* rgb_to_hex: '#{:02x}{:02x}{:02x}'.format(r, g, b).upper(), as the       *)
(* sequence of its seven characters.                                       *)

HexLower ==
    <<"0", "1", "2", "3", "4", "5", "6", "7", "8", "9", "a", "b", "c", "d", "e", "f">>

Format02x(v) == <<HexLower[(v \div 16) + 1], HexLower[(v % 16) + 1]>>

Upper(c) ==
    CASE c = "a" -> "A" [] c = "b" -> "B" [] c = "c" -> "C"
      [] c = "d" -> "D" [] c = "e" -> "E" [] c = "f" -> "F" [] OTHER -> c

rgb_to_hex(rgb_color) ==
    LET s == <<"#">> \o Format02x(rgb_color[1]) \o Format02x(rgb_color[2])
                     \o Format02x(rgb_color[3])
    IN  [k \in 1 .. Len(s) |-> Upper(s[k])]

----------------------------------------------------------------------------
(* Image.thumbnail(size, LANCZOS) of line 32.                              *)

Abs(n) == IF n < 0 THEN -n ELSE n
MaxOf(a, b) == IF a >= b THEN a ELSE b
MinOf(a, b) == IF a <= b THEN a ELSE b
Floor(n, d) == n \div d
Ceil(n, d) == (n + d - 1) \div d

IsPowerOfTwo(n) == n \in {1, 2, 4, 8, 16, 32, 64, 128, 256}

(* min(floor, ceil, key = key) of round_aspect, the keys compared as the   *)
(* fractions klo/dlo and khi/dhi: the nearer one; on equal keys the floor  *)
(* (min returns its first argument) when the floating-point operations are *)
(* exact, and otherwise the one their rounding errors favour.              *)
NearerOf(lo, hi, klo, dlo, khi, dhi, exact) ==
    IF klo * dhi < khi * dlo THEN {lo}
    ELSE IF klo * dhi > khi * dlo THEN {hi}
    ELSE IF exact THEN {lo}
    ELSE {lo, hi}

(* round_aspect(y * aspect, key = |aspect - n / y|), aspect = fw / fh:     *)
(* the floor or the ceiling of th * fw / fh, the one whose ratio to th is  *)
(* nearer the aspect, at least 1.                                          *)
RoundAspectX(fw, fh, th) ==
    LET lo == Floor(th * fw, fh)
        hi == Ceil(th * fw, fh)
        key(n) == Abs(fw * th - n * fh)
    IN  {MaxOf(n, 1) : n \in NearerOf(lo, hi, key(lo), 1, key(hi), 1,
                                       IsPowerOfTwo(fh) /\ IsPowerOfTwo(th))}

(* round_aspect(x / aspect, key = 0 if n == 0 else |aspect - x / n|).      *)
RoundAspectY(fw, fh, tw) ==
    LET lo == Floor(tw * fh, fw)
        hi == Ceil(tw * fh, fw)
        key(n) == Abs(fw * n - tw * fh)
    IN  {MaxOf(n, 1) :
            n \in IF lo = 0 THEN {lo}
                  ELSE NearerOf(lo, hi, key(lo), lo, key(hi), hi,
                                IsPowerOfTwo(fh) /\ IsPowerOfTwo(lo)
                                                 /\ IsPowerOfTwo(hi))}

(* The sizes thumbnail may give a fw x fh image asked to fit size: its own *)
(* when it fits already (thumbnail never enlarges).                        *)
ThumbnailSize(fw, fh, size) ==
    IF size[1] >= fw /\ size[2] >= fh THEN {<<fw, fh>>}
    ELSE IF size[1] * fh >= fw * size[2]
         THEN {<<x, size[2]>> : x \in RoundAspectX(fw, fh, size[2])}
         ELSE {<<size[1], y>> : y \in RoundAspectY(fw, fh, size[1])}

(* A sample through resize's premultiplied round trip (RGBA -> RGBa ->     *)
(* RGBA): the colour of a sample of alpha 0 is lost.                       *)
Premultiplied(s) == IF s[4] = 0 THEN <<0, 0, 0, 0>> ELSE s

(* The resampled image.  Resampling a one-sample image gives that sample   *)
(* everywhere; Init draws no other image that has to be resampled.         *)
Resize(f, size) ==
    IF size = <<f.w, f.h>> THEN f
    ELSE [w |-> size[1], h |-> size[2],
          px |-> [p \in Grid(size[1], size[2]) |-> Premultiplied(f.px[<<0, 0>>])]]

Thumbnail(f, size) == {Resize(f, sz) : sz \in ThumbnailSize(f.w, f.h, size)}

(* Lines 35-38: the transparent canvas with the scaled frame pasted. *)
(* PasteOffset without the halving: the frame pushed to the far edge. *)
MutPasteOffsetNotHalved(outer, inner) == outer - inner

PasteOffset(outer, inner) == (outer - inner) \div 2

Paste(size, f, off) ==
    [w |-> size[1], h |-> size[2],
     px |-> [p \in Grid(size[1], size[2]) |->
               IF /\ p[1] >= off[1] /\ p[1] < off[1] + f.w
                  /\ p[2] >= off[2] /\ p[2] < off[2] + f.h
               THEN f.px[<<p[1] - off[1], p[2] - off[2]>>]
               ELSE Transparent]]

----------------------------------------------------------------------------
(* Lines 44-91: the scan.  A coordinate is the pair <<numerator,           *)
(* denominator>> of the division the code performs.                        *)

NoColor == <<>>

EndBeforeX(x) == x - 1

EndOfRowX(width) == width - 1

(* Command with the default thickness in place of the parameter. *)
MutCommandThickness(c, start_x, end_x, y, color) ==
    [start_norm |-> << <<start_x + c.offset[1], c.output_size[1]>>,
                       <<y + c.offset[2], c.output_size[2]>> >>,
     end_norm   |-> << <<end_x + c.offset[1], c.output_size[1]>>,
                       <<y + c.offset[2], c.output_size[2]>> >>,
     color      |-> color,
     thickness  |-> DefaultBrushThickness]

Command(c, start_x, end_x, y, color) ==
    [start_norm |-> << <<start_x + c.offset[1], c.output_size[1]>>,
                       <<y + c.offset[2], c.output_size[2]>> >>,
     end_norm   |-> << <<end_x + c.offset[1], c.output_size[1]>>,
                       <<y + c.offset[2], c.output_size[2]>> >>,
     color      |-> color,
     thickness  |-> c.brush_thickness]

(* The inner loop (lines 50-80) from column x on, then lines 83-89. *)
RECURSIVE ScanRow(_, _, _, _, _, _)
ScanRow(c, y, x, current_line_start_x, current_line_color, cmds) ==
    IF x >= c.img.w
    THEN IF current_line_start_x # -1
         THEN Append(cmds, Command(c, current_line_start_x, EndOfRowX(c.img.w),
                                   y, current_line_color))
         ELSE cmds
    ELSE LET s == c.img.px[<<x, y>>]
             hex_color == rgb_to_hex(<<s[1], s[2], s[3]>>)
             nx == x + c.quality_factor
         IN  IF s[4] > c.transparency_threshold
             THEN IF current_line_start_x = -1
                  THEN ScanRow(c, y, nx, x, hex_color, cmds)
                  ELSE IF hex_color # current_line_color
                  THEN ScanRow(c, y, nx, x, hex_color,
                               Append(cmds, Command(c, current_line_start_x,
                                                    EndBeforeX(x), y,
                                                    current_line_color)))
                  ELSE ScanRow(c, y, nx, current_line_start_x,
                               current_line_color, cmds)
             ELSE IF current_line_start_x # -1
                  THEN ScanRow(c, y, nx, -1, NoColor,
                               Append(cmds, Command(c, current_line_start_x,
                                                    EndBeforeX(x), y,
                                                    current_line_color)))
                  ELSE ScanRow(c, y, nx, -1, NoColor, cmds)

(* The outer loop (line 46) from row y on. *)
RECURSIVE ScanRows(_, _, _)
ScanRows(c, y, cmds) ==
    IF y >= c.img.h THEN cmds
    ELSE ScanRows(c, y + c.quality_factor, ScanRow(c, y, 0, -1, NoColor, cmds))

(* Lines 29-42, for each image thumbnail may give. *)
Centered(size, t) ==
    LET off == <<PasteOffset(size[1], t.w), PasteOffset(size[2], t.h)>>
    IN  [scaled |-> <<t.w, t.h>>, offset |-> off, img |-> Paste(size, t, off)]

Normalized(f, size) == {Centered(size, t) : t \in Thumbnail(f, size)}

(* get_drawing_commands_from_image, whole: the lists it may return (one,   *)
(* but for the roundings of thumbnail).                                    *)
get_drawing_commands_from_image(f, size, thickness, quality, threshold) ==
    {ScanRows([img |-> n.img, offset |-> n.offset, output_size |-> size,
               brush_thickness |-> thickness, quality_factor |-> quality,
               transparency_threshold |-> threshold], 0, <<>>) :
        n \in Normalized(f, size)}

----------------------------------------------------------------------------
(* Spec: one call of get_drawing_commands_from_image. *)

NoImage == [w |-> 0, h |-> 0, px |-> <<>>]

None == <<>>
NoGif == [openable |-> FALSE, frames |-> <<>>, duration |-> None]

(* The processor is not running (Spec). *)
ProcIdle ==
    /\ gif = NoGif
    /\ max_frames = None
    /\ log_callback = "print"
    /\ proc_pc = "idle"
    /\ frames_data = <<>>
    /\ original_fps = <<DefaultFps, 1>>
    /\ frame_count = 0
    /\ total_commands = 0
    /\ i = 0
    /\ output_data = <<>>
    /\ output_file = <<>>
    /\ save_attempted = FALSE
    /\ log = <<>>

(* No window (Spec, ProcSpec). *)
GuiIdle ==
    /\ convert_button = "normal"
    /\ gif_path_var = ""
    /\ max_frames_entry = "0"
    /\ after_queue = <<>>
    /\ converting = 0
    /\ thread_args = <<>>

(* The encoder's own variables while another component runs. *)
EncIdle ==
    /\ image_input = NoImage
    /\ enc_pc = "idle"
    /\ img = NoImage
    /\ offset = <<0, 0>>
    /\ scaled = <<0, 0>>
    /\ commands = <<>>

Thresholds == {0, DefaultThreshold}
Thicknesses == {DefaultBrushThickness, DefaultBrushThickness + 1}

EncInit ==
    /\ output_size \in (1 .. MaxW) \X (1 .. MaxH)
    /\ image_input \in Frames
    /\ \/ image_input.w <= output_size[1] /\ image_input.h <= output_size[2]
       \/ Uniform(image_input)
    /\ brush_thickness \in Thicknesses
    /\ quality_factor \in 1 .. MaxStride
    /\ transparency_threshold \in Thresholds
    /\ enc_pc = "start"
    /\ img = NoImage
    /\ offset = <<0, 0>>
    /\ scaled = <<0, 0>>
    /\ commands = <<>>
    /\ ProcIdle
    /\ GuiIdle

(* Lines 29-42. *)
Normalize ==
    /\ enc_pc = "start"
    /\ \E n \in Normalized(image_input, output_size) :
           /\ img' = n.img
           /\ offset' = n.offset
           /\ scaled' = n.scaled
    /\ enc_pc' = "normalized"
    /\ UNCHANGED <<image_input, commands, parVars, procVars, guiVars>>

(* Lines 44-91. *)
Scan ==
    /\ enc_pc = "normalized"
    /\ commands' = ScanRows([img |-> img, offset |-> offset,
                             output_size |-> output_size,
                             brush_thickness |-> brush_thickness,
                             quality_factor |-> quality_factor,
                             transparency_threshold |-> transparency_threshold],
                            0, <<>>)
    /\ enc_pc' = "done"
    /\ UNCHANGED <<image_input, img, offset, scaled, parVars, procVars, guiVars>>

EncNext == Normalize \/ Scan

Spec == EncInit /\ [][EncNext]_vars

----------------------------------------------------------------------------
(* ProcSpec: one call of gif_to_drawaria_json_processor. *)

(* log (lines 110-114): print when no callback was given, else the         *)
(* callback, which is foreign code and may raise.  TRUE: the message was   *)
(* taken; FALSE: the call raised.                                          *)
LogOutcomes == IF log_callback = "callable" THEN {TRUE, FALSE} ELSE {TRUE}

Logged(l, ok, message) == IF ok THEN Append(l, message) ELSE l

(* CapReached with > for >=: one frame too many. *)
MutCapReachedLate(index, cap) == cap # None /\ index > cap[1]

(* Line 133. *)
CapReached(index, cap) == cap # None /\ index >= cap[1]

RECURSIVE SumLen(_)
SumLen(lists) == IF lists = <<>> THEN 0 ELSE Len(Head(lists)) + SumLen(Tail(lists))

(* Lines 151-166. *)
OutputData ==
    [frames |-> frames_data,
     metadata |-> [width |-> output_size[1],
                   height |-> output_size[2],
                   original_fps |-> original_fps,
                   frame_count |-> frame_count,
                   total_commands_generated |-> total_commands,
                   processing_options |->
                       [brush_thickness |-> brush_thickness,
                        quality_factor |-> quality_factor,
                        transparency_threshold |-> transparency_threshold,
                        max_frames_processed |-> max_frames]]]

ProcFrames ==
    {[w |-> 2, h |-> 1, px |-> [p \in Grid(2, 1) |-> IF p[1] = 0 THEN Red ELSE Blue]],
     [w |-> 1, h |-> 1, px |-> [p \in Grid(1, 1) |-> Red]]}

SeqsUpTo(S, n) == UNION {[1 .. k -> S] : k \in 1 .. n}

Durations == {None, <<0>>, <<100>>}

Gifs ==
    {[openable |-> TRUE, frames |-> fs, duration |-> d] :
        fs \in SeqsUpTo(ProcFrames, MaxFrames), d \in Durations}
    \cup {NoGif}

ProcInit ==
    /\ gif \in Gifs
    /\ max_frames \in {None} \cup {<<m>> : m \in -1 .. MaxCap}
    /\ log_callback \in {"print", "callable"}
    /\ output_size \in {<<2, 1>>, <<3, 2>>}
    /\ brush_thickness = DefaultBrushThickness
    /\ quality_factor = 1
    /\ transparency_threshold = DefaultThreshold
    /\ proc_pc = "load"
    /\ frames_data = <<>>
    /\ original_fps = <<DefaultFps, 1>>
    /\ frame_count = 0
    /\ total_commands = 0
    /\ i = 0
    /\ output_data = <<>>
    /\ output_file = <<>>
    /\ save_attempted = FALSE
    /\ log = <<>>
    /\ EncIdle
    /\ GuiIdle

(* Lines 116-121: the first message, then Image.open.  An exception of     *)
(* either goes to the handler, which logs an error and returns.            *)
LoadGif ==
    /\ proc_pc = "load"
    /\ \E ok \in LogOutcomes :
          IF ok /\ gif.openable
          THEN /\ log' = Append(log, "loading")
               /\ proc_pc' = "fps"
          ELSE \E ok2 \in LogOutcomes :
                  /\ log' = Logged(Logged(log, ok, "loading"), ok2, "load_error")
                  /\ proc_pc' = IF ok2 THEN "returned" ELSE "raised"
    /\ UNCHANGED <<gif, max_frames, log_callback, frames_data, original_fps,
                   frame_count, total_commands, i, output_data, output_file,
                   save_attempted, encVars, parVars, guiVars>>

(* Lines 123-130: 1000 / duration (a ZeroDivisionError at duration 0), or  *)
(* 10 without a duration; the bare except also takes an exception of the   *)
(* message of line 125.                                                    *)
DetermineFps ==
    /\ proc_pc = "fps"
    /\ LET divides == gif.duration = None \/ gif.duration[1] # 0
       IN  /\ original_fps' =
                 IF gif.duration # None /\ gif.duration[1] # 0
                 THEN <<MillisPerSecond, gif.duration[1]>>
                 ELSE <<DefaultFps, 1>>
           /\ \E ok \in LogOutcomes :
                 IF divides /\ ok
                 THEN /\ log' = Append(log, "fps")
                      /\ proc_pc' = "loop"
                 ELSE \E ok2 \in LogOutcomes :
                         /\ log' = Logged(log, ok2, "fps_default")
                         /\ proc_pc' = IF ok2 THEN "loop" ELSE "raised"
    /\ UNCHANGED <<gif, max_frames, log_callback, frames_data, frame_count,
                   total_commands, i, output_data, output_file, save_attempted,
                   encVars, parVars, guiVars>>

(* Lines 132-149: one turn of the loop, or its end. *)
FrameStep ==
    /\ proc_pc = "loop"
    /\ IF i >= Len(gif.frames)
       THEN /\ proc_pc' = "save"
            /\ UNCHANGED <<frames_data, frame_count, total_commands, i, log>>
       ELSE IF CapReached(i, max_frames)
       THEN /\ \E ok \in LogOutcomes :
                  /\ log' = Logged(log, ok, "limit")
                  /\ proc_pc' = IF ok THEN "save" ELSE "raised"
            /\ UNCHANGED <<frames_data, frame_count, total_commands, i>>
       ELSE \E ok \in LogOutcomes :
               IF ~ok
               THEN /\ proc_pc' = "raised"
                    /\ UNCHANGED <<frames_data, frame_count, total_commands, i, log>>
               ELSE \E cmds \in get_drawing_commands_from_image(
                                    gif.frames[i + 1], output_size, brush_thickness,
                                    quality_factor, transparency_threshold) :
                        /\ frames_data' = Append(frames_data, cmds)
                        /\ total_commands' = total_commands + Len(cmds)
                        /\ frame_count' = frame_count + 1
                        /\ i' = i + 1
                        /\ \E ok2 \in LogOutcomes :
                              /\ log' = Logged(Append(log, "frame"), ok2, "frame_done")
                              /\ proc_pc' = IF ok2 THEN "loop" ELSE "raised"
    /\ UNCHANGED <<gif, max_frames, log_callback, original_fps, output_data,
                   output_file, save_attempted, encVars, parVars, guiVars>>

(* Lines 151-173: the result, then the file.  A failure of open or of      *)
(* json.dump, and an exception of the message of line 171, go to the       *)
(* handler of line 172, which logs an error.                               *)
Save ==
    /\ proc_pc = "save"
    /\ output_data' = <<OutputData>>
    /\ save_attempted' = TRUE
    /\ \E written \in BOOLEAN : \E ok \in LogOutcomes :
          /\ output_file' = IF written THEN <<OutputData>> ELSE <<>>
          /\ IF written /\ ok
             THEN /\ log' = Append(log, "completed")
                  /\ proc_pc' = "returned"
             ELSE \E ok2 \in LogOutcomes :
                     /\ log' = Logged(log, ok2, "save_error")
                     /\ proc_pc' = IF ok2 THEN "returned" ELSE "raised"
    /\ UNCHANGED <<gif, max_frames, log_callback, frames_data, original_fps,
                   frame_count, total_commands, i, encVars, parVars, guiVars>>

ProcNext == LoadGif \/ DetermineFps \/ FrameStep \/ Save

ProcSpec == ProcInit /\ [][ProcNext]_vars

----------------------------------------------------------------------------
(* GuiSpec: the window.  The main thread runs one callback at a time (a    *)
(* click on the button, a callback of master.after); a worker thread runs  *)
(* _run_conversion beside it.                                              *)

(* What the disk holds under the path chosen. *)
GifPaths == {"missing.gif", "corrupt.gif", "good.gif"}

PathExists(path) == path # "missing.gif"

EntryTexts == {"0", "2", "-1", "abc", ""}

(* IntVar.get() (line 301): the integer the text reads as, None when Tcl   *)
(* cannot read it as a number (TclError).                                  *)
IntVarGet(text) ==
    CASE text = "0" -> <<0>>
      [] text = "2" -> <<2>>
      [] text = "-1" -> <<-1>>
      [] OTHER -> None

(* ButtonWhileStarting without line 288. *)
MutButtonLeftEnabled == "normal"

(* Line 288. *)
ButtonWhileStarting == "disabled"

GuiInit ==
    /\ convert_button = "normal"
    /\ gif_path_var = ""
    /\ max_frames_entry = "0"
    /\ after_queue = <<>>
    /\ converting = 0
    /\ thread_args = <<>>
    /\ EncIdle
    /\ ProcIdle
    /\ output_size = <<30, 30>>
    /\ brush_thickness = DefaultBrushThickness
    /\ quality_factor = 1
    /\ transparency_threshold = DefaultThreshold

(* browse_gif (lines 279-284), a file chosen. *)
BrowseGif ==
    /\ \E path \in GifPaths : gif_path_var' = path
    /\ UNCHANGED <<convert_button, max_frames_entry, after_queue, converting,
                   thread_args, encVars, parVars, procVars>>

(* The user types in the max-frames entry (line 256). *)
EditMaxFrames ==
    /\ \E text \in EntryTexts : max_frames_entry' = text
    /\ UNCHANGED <<convert_button, gif_path_var, after_queue, converting,
                   thread_args, encVars, parVars, procVars>>

(* start_conversion_thread (lines 286-322), run by a click on the button   *)
(* while it is enabled.  A TclError of max_frames_var.get() leaves the     *)
(* callback at line 301.                                                   *)
StartConversionThread ==
    /\ convert_button = "normal"
    /\ Len(after_queue) + 2 <= MaxQueue
    /\ LET read == IntVarGet(max_frames_entry)
           started == Append(after_queue, "append_log")
       IN  IF read = None
           THEN /\ convert_button' = ButtonWhileStarting
                /\ after_queue' = started
                /\ UNCHANGED <<converting, thread_args>>
           ELSE IF gif_path_var = "" \/ ~PathExists(gif_path_var)
           THEN /\ convert_button' = "normal"
                /\ after_queue' = Append(started, "append_log")
                /\ UNCHANGED <<converting, thread_args>>
           ELSE /\ convert_button' = ButtonWhileStarting
                /\ after_queue' = started
                /\ converting' = converting + 1
                /\ thread_args' =
                      <<[gif_local_path |-> gif_path_var,
                         max_frames |-> IF read[1] = 0 THEN None ELSE read]>>
    /\ UNCHANGED <<gif_path_var, max_frames_entry, encVars, parVars, procVars>>

(* The main loop runs the oldest callback of master.after: _append_log     *)
(* (lines 273-277) or the lambda of line 340.                              *)
MainLoop ==
    /\ after_queue # <<>>
    /\ after_queue' = Tail(after_queue)
    /\ convert_button' =
          IF Head(after_queue) = "enable_button" THEN "normal" ELSE convert_button
    /\ UNCHANGED <<gif_path_var, max_frames_entry, converting, thread_args,
                   encVars, parVars, procVars>>

(* A worker thread logs a message: log_message (line 271), called by the   *)
(* processor through its log callback (line 334) or by the except branch   *)
(* of _run_conversion when the processor raised (line 337).  The thread    *)
(* goes on running.                                                        *)
WorkerLog ==
    /\ converting > 0
    /\ Len(after_queue) + 1 <= MaxQueue
    /\ after_queue' = Append(after_queue, "append_log")
    /\ UNCHANGED <<convert_button, gif_path_var, max_frames_entry, converting,
                   thread_args, encVars, parVars, procVars>>

(* The finally clause of a worker (lines 338-340), reached after the       *)
(* processor returned or after the except branch logged: the callback      *)
(* enabling the button is given to master.after and the thread ends.       *)
WorkerFinish ==
    /\ converting > 0
    /\ converting' = converting - 1
    /\ after_queue' = Append(after_queue, "enable_button")
    /\ UNCHANGED <<convert_button, gif_path_var, max_frames_entry, thread_args,
                   encVars, parVars, procVars>>

GuiNext ==
    \/ BrowseGif
    \/ EditMaxFrames
    \/ StartConversionThread
    \/ MainLoop
    \/ WorkerLog
    \/ WorkerFinish

GuiSpec == GuiInit /\ [][GuiNext]_vars

(* The Tk main loop keeps running and every worker thread terminates. *)
FairGuiSpec == GuiSpec /\ WF_vars(MainLoop) /\ WF_vars(WorkerFinish)

----------------------------------------------------------------------------
(* The runs of the canvas, stated from the canvas alone: the visited       *)
(* columns of a visited row, the opaque-enough samples among them, and the *)
(* maximal stretches of consecutive visited columns of one colour.         *)

VisitedSeq(n) ==
    [k \in 1 .. ((n - 1) \div quality_factor) + 1 |-> (k - 1) * quality_factor]

OpaqueEnough(x, y) == img.px[<<x, y>>][4] > transparency_threshold

ColorAt(x, y) == rgb_to_hex(<<img.px[<<x, y>>][1], img.px[<<x, y>>][2],
                              img.px[<<x, y>>][3]>>)

VisitedBetween(a, b) == {x \in a .. b : x % quality_factor = 0}

InRun(a, b, y) ==
    \A x \in VisitedBetween(a, b) : OpaqueEnough(x, y) /\ ColorAt(x, y) = ColorAt(a, y)

RunStart(x, y) ==
    /\ OpaqueEnough(x, y)
    /\ x = 0 \/ ~InRun(x - quality_factor, x, y)

RunLast(x, y) ==
    CHOOSE b \in VisitedBetween(x, img.w - 1) :
        /\ InRun(x, b, y)
        /\ \A b2 \in VisitedBetween(b + 1, img.w - 1) : ~InRun(x, b2, y)

RowRuns(y) ==
    LET IsStart(x) == RunStart(x, y)
        starts == SelectSeq(VisitedSeq(img.w), IsStart)
    IN  [k \in 1 .. Len(starts) |->
            [x |-> starts[k], y |-> y, color |-> ColorAt(starts[k], y),
             last |-> RunLast(starts[k], y)]]

RECURSIVE RunsFromRow(_)
RunsFromRow(r) ==
    IF r > Len(VisitedSeq(img.h)) THEN <<>>
    ELSE RowRuns(VisitedSeq(img.h)[r]) \o RunsFromRow(r + 1)

AllRuns == RunsFromRow(1)

Fits == image_input.w <= output_size[1] /\ image_input.h <= output_size[2]

----------------------------------------------------------------------------
(* C1: the encoder emits, row by row and left to right, exactly one        *)
(* command per maximal run of visited opaque-enough samples of one colour; *)
(* the command has the run's colour and starts at the run's first visited  *)
(* column.                                                                 *)
OneCommandPerRun ==
    enc_pc = "done" =>
        /\ Len(commands) = Len(AllRuns)
        /\ \A k \in 1 .. Len(commands) :
              /\ commands[k].color = AllRuns[k].color
              /\ commands[k].start_norm[1] = <<AllRuns[k].x, img.w>>

(* C2: every command ends at the last visited column of its run. *)
EndsAtLastVisitedColumn ==
    enc_pc = "done" =>
        \A k \in 1 .. MinOf(Len(commands), Len(AllRuns)) :
            commands[k].end_norm[1] = <<AllRuns[k].last, img.w>>

(* C3: the coordinates of a command are canvas pixel addresses over the    *)
(* canvas size, the centering offsets counted once: the start is the run's *)
(* first column over the width and its row over the height, the end is a   *)
(* column of the canvas at or after the start, in the same row.            *)
CoordinatesAreCanvasAddresses ==
    enc_pc = "done" =>
        \A k \in 1 .. MinOf(Len(commands), Len(AllRuns)) :
            /\ commands[k].start_norm = << <<AllRuns[k].x, img.w>>,
                                           <<AllRuns[k].y, img.h>> >>
            /\ commands[k].end_norm[2] = <<AllRuns[k].y, img.h>>
            /\ commands[k].end_norm[1][2] = img.w
            /\ commands[k].end_norm[1][1] \in AllRuns[k].x .. img.w - 1

(* C4: the four coordinates of every command lie in [0, 1]. *)
InUnit(frac) == 0 <= frac[1] /\ frac[1] <= frac[2]

CoordinatesInUnitRange ==
    enc_pc = "done" =>
        \A k \in 1 .. Len(commands) :
            /\ InUnit(commands[k].start_norm[1]) /\ InUnit(commands[k].start_norm[2])
            /\ InUnit(commands[k].end_norm[1]) /\ InUnit(commands[k].end_norm[2])

(* C5: every command is horizontal (start.y = end.y), runs left to right   *)
(* (start.x <= end.x) and carries the configured brush thickness; at       *)
(* stride 1 a run of one visited sample gives start = end.                 *)
CommandsHorizontalOrderedThick ==
    enc_pc = "done" =>
        /\ \A k \in 1 .. Len(commands) :
              /\ commands[k].start_norm[2] = commands[k].end_norm[2]
              /\ commands[k].start_norm[1][2] = commands[k].end_norm[1][2]
              /\ commands[k].start_norm[1][1] <= commands[k].end_norm[1][1]
              /\ commands[k].thickness = brush_thickness
        /\ quality_factor = 1 =>
              \A k \in 1 .. MinOf(Len(commands), Len(AllRuns)) :
                  AllRuns[k].last = AllRuns[k].x =>
                      commands[k].start_norm = commands[k].end_norm

(* C5's case: at stride 1, with a brush thickness other than the default,  *)
(* a one-sample run (start = end) and a longer run in the same frame.      *)
WitnessHorizontalOrderedThick ==
    /\ enc_pc = "done"
    /\ quality_factor = 1
    /\ brush_thickness # DefaultBrushThickness
    /\ \E k \in 1 .. Len(commands) : commands[k].start_norm = commands[k].end_norm
    /\ \E k \in 1 .. Len(commands) :
          commands[k].start_norm[1][1] < commands[k].end_norm[1][1]

(* C8 as stated: the frame is scaled by min(tw/fw, th/fh) to               *)
(* floor(fw*scale) x floor(fh*scale), centred by floor division, the rest  *)
(* of the canvas transparent.                                              *)
MinRatioSize(fw, fh, tw, th) ==
    IF tw * fh <= th * fw
    THEN <<Floor(fw * tw, fw), Floor(fh * tw, fw)>>
    ELSE <<Floor(fw * th, fh), Floor(fh * th, fh)>>

OutsidePasteTransparent ==
    \A p \in DOMAIN img.px :
        (\/ p[1] < offset[1] \/ p[1] >= offset[1] + scaled[1]
         \/ p[2] < offset[2] \/ p[2] >= offset[2] + scaled[2]) => img.px[p][4] = 0

CenteredByFloor ==
    /\ 2 * offset[1] \in {output_size[1] - scaled[1], output_size[1] - scaled[1] - 1}
    /\ 2 * offset[2] \in {output_size[2] - scaled[2], output_size[2] - scaled[2] - 1}

NormalizerScalesByMinRatio ==
    enc_pc # "start" =>
        /\ scaled = MinRatioSize(image_input.w, image_input.h,
                                 output_size[1], output_size[2])
        /\ scaled[1] <= output_size[1] /\ scaled[2] <= output_size[2]
        /\ CenteredByFloor
        /\ <<img.w, img.h>> = output_size
        /\ OutsidePasteTransparent

(* C8 amended: the factor is min(1, tw/fw, th/fh).  A frame that fits is   *)
(* pasted as it is; a larger one is reduced so that the limiting dimension *)
(* equals the target and the other is fw*scale (fh*scale) rounded down or  *)
(* up, to the one that keeps the aspect ratio nearest, and at least 1.     *)
(* Centred by floor division, the rest transparent.                        *)
Between(v, n, d) == MaxOf(1, Floor(n, d)) <= v /\ v <= MaxOf(1, Ceil(n, d))

(* No rounding of n / d (down or up, not to 0) is nearer the aspect than   *)
(* v: the distance of candidate c is dist(c) / scale(c).                   *)
NearestRounding(v, n, d, dist(_), scale(_)) ==
    \A c \in {Floor(n, d), Ceil(n, d)} :
        Floor(n, d) >= 1 => dist(v) * scale(c) <= dist(c) * scale(v)

NormalizerFitsWithoutEnlarging ==
    enc_pc # "start" =>
        LET fw == image_input.w
            fh == image_input.h
            tw == output_size[1]
            th == output_size[2]
        IN  /\ Fits =>
                  /\ scaled = <<fw, fh>>
                  /\ \A p \in DOMAIN image_input.px :
                        img.px[<<p[1] + offset[1], p[2] + offset[2]>>]
                            = image_input.px[p]
            /\ ~Fits /\ tw * fh <= th * fw =>
                  /\ scaled[1] = tw
                  /\ Between(scaled[2], fh * tw, fw)
                  /\ tw * fh < th * fw =>
                        NearestRounding(scaled[2], fh * tw, fw,
                                        LAMBDA c : Abs(fw * c - tw * fh),
                                        LAMBDA c : c)
            /\ ~Fits /\ tw * fh >= th * fw =>
                  /\ scaled[2] = th
                  /\ Between(scaled[1], fw * th, fh)
                  /\ NearestRounding(scaled[1], fw * th, fh,
                                     LAMBDA c : Abs(fw * th - c * fh),
                                     LAMBDA c : 1)
            /\ scaled[1] <= tw /\ scaled[2] <= th
            /\ CenteredByFloor
            /\ <<img.w, img.h>> = output_size
            /\ OutsidePasteTransparent

(* C8's case: a frame taller than the target, reduced and centred with a   *)
(* positive horizontal offset.                                             *)
WitnessReducedAndCentered ==
    /\ enc_pc = "normalized"
    /\ ~Fits
    /\ scaled[2] = output_size[2]
    /\ offset[1] > 0

----------------------------------------------------------------------------
(* What a call of the processor is to produce, stated from its arguments. *)

Encodings(k) ==
    get_drawing_commands_from_image(gif.frames[k], output_size, brush_thickness,
                                    quality_factor, transparency_threshold)

Kept ==
    IF max_frames = None THEN Len(gif.frames)
    ELSE MinOf(MaxOf(max_frames[1], 0), Len(gif.frames))

ExpectedResult(frames) ==
        [frames |-> frames,
         metadata |-> [width |-> output_size[1],
                       height |-> output_size[2],
                       original_fps |->
                           IF gif.duration = None \/ gif.duration = <<0>>
                           THEN <<DefaultFps, 1>>
                           ELSE <<MillisPerSecond, gif.duration[1]>>,
                       frame_count |-> Kept,
                       total_commands_generated |-> SumLen(frames),
                       processing_options |->
                           [brush_thickness |-> brush_thickness,
                            quality_factor |-> quality_factor,
                            transparency_threshold |-> transparency_threshold,
                            max_frames_processed |-> max_frames]]]

(* C6: frames are taken in source order and none once the cap m >= 1 is    *)
(* reached: the frames kept are at all times the encodings of a prefix of  *)
(* the source, never more than m; the result holds min(m, n) of them (all  *)
(* n without a cap), frame_count is their number and                       *)
(* total_commands_generated the sum of their lengths.                      *)
FramesInOrderUpToCap ==
    (max_frames = None \/ max_frames[1] >= 1) =>
        /\ Len(frames_data) <= Len(gif.frames)
        /\ \A k \in 1 .. Len(frames_data) : frames_data[k] \in Encodings(k)
        /\ max_frames # None => Len(frames_data) <= max_frames[1]
        /\ output_data # <<>> =>
              LET result == output_data[1]
              IN  /\ result.frames = frames_data
                  /\ Len(result.frames) =
                        IF max_frames = None THEN Len(gif.frames)
                        ELSE MinOf(max_frames[1], Len(gif.frames))
                  /\ result.metadata.frame_count = Len(result.frames)
                  /\ result.metadata.total_commands_generated = SumLen(result.frames)

(* C6's case: max_frames = 2 on a source of 5 frames gives 2 and 2. *)
WitnessTwoOfFive ==
    /\ output_data # <<>>
    /\ Len(gif.frames) = 5
    /\ max_frames = <<2>>
    /\ Len(output_data[1].frames) = 2
    /\ output_data[1].metadata.frame_count = 2
    /\ output_data[1].metadata.total_commands_generated > 2

(* C7: whatever the observer does, a call on a readable source ends by     *)
(* returning, with the result of a run whose observer never fails built    *)
(* and handed to persistence.                                              *)
ObserverFailureNeverAborts ==
    (proc_pc \in {"returned", "raised"} /\ gif.openable) =>
        /\ proc_pc = "returned"
        /\ save_attempted
        /\ Len(output_data) = 1
        /\ Len(output_data[1].frames) = Kept
        /\ \A k \in 1 .. Kept : output_data[1].frames[k] \in Encodings(k)
        /\ output_data[1] = ExpectedResult(output_data[1].frames)

(* C9: a disabled convert button is eventually enabled again. *)
ButtonEventuallyEnabledAgain ==
    (convert_button = "disabled") ~> (convert_button = "normal")

(* C10: at most one worker thread is running (so at most one is inside the *)
(* processor), and while one is the button is disabled and no callback     *)
(* enabling it is pending.                                                 *)
AtMostOneWorkerConverting ==
    /\ converting <= 1
    /\ converting = 1 =>
          /\ convert_button = "disabled"
          /\ \A k \in 1 .. Len(after_queue) : after_queue[k] # "enable_button"

(* C10's case: a worker converts, started with a cap of 2 frames, while    *)
(* callbacks of messages are pending and the button is disabled.           *)
WitnessWorkerConverting ==
    /\ converting = 1
    /\ convert_button = "disabled"
    /\ thread_args # <<>>
    /\ thread_args[1].max_frames = <<2>>
    /\ Len(after_queue) = MaxQueue

====
